---------------------------- MODULE Spec2Model ----------------------------
(***************************************************************************)
(* A model of the nostrmart repository: the Nostr authentication layer     *)
(* (src/nostr_auth.py), the login and purchase routes (src/routes.py),     *)
(* the Blossom blob client (src/blossom_client.py) and the Supabase event  *)
(* service (src/app/services/nostr_service.py with its REST client).       *)
(*                                                                         *)
(* Idealisations, stated once:                                             *)
(*  - SHA-256 is collision free: a digest is the tagged value it hashes.   *)
(*  - secrets.token_hex(32) never repeats: challenge n is the n-th value   *)
(*    drawn, and the values drawn are pairwise different.                  *)
(*  - A hex string is named by what it decodes to ("alice" is a 64-digit   *)
(*    hex public key, "short62" one of 62 digits, "nothex" not hex).       *)
(*    In the key codec a string is the sequence of its characters.         *)
(*  - Time is in whole seconds.                                            *)
(***************************************************************************)
EXTENDS Integers, Sequences, FiniteSets, TLC

VARIABLES
    now,                \* time.time()
    active_challenges,  \* NostrAuthManager.active_challenges
    issued,             \* history: who drew the n-th challenge, and when
    ret,                \* the last NostrAuthManager call and what it returned
    session,            \* the Flask session cookie of each browser
    users,              \* the User table: the hex_pubkey of each row
    resp,               \* the last HTTP response of the login routes
    accepted,           \* per browser: the event of its last successful login
    call,               \* the last call of a pure function of nostr_auth.py
    blob,               \* the last BlossomClient operation
    nostr_events,       \* the ids of the rows of the Supabase table nostr_events
    tasks,              \* each caller's NostrService.create_event call
    request,            \* the last SupabaseClient._make_request call
    listings,           \* the Listing table: status and seller_id of each row
    purchases,          \* the Purchase table
    buys                \* each buy_listing request in progress

vars == <<now, active_challenges, issued, ret, session, users, resp, accepted,
          call, blob, nostr_events, tasks, request, listings, purchases, buys>>

authVars == <<active_challenges, issued, ret>>
loginVars == <<session, users, resp, accepted>>
supaVars == <<nostr_events, tasks, request>>
shopVars == <<listings, purchases, buys>>

-----------------------------------------------------------------------------
(* Bounds of the model and constants of the program.                       *)

MaxTicks == 2          \* clock steps taken in one behaviour
MaxChallenges == 3     \* challenges drawn from the manager in one behaviour
MaxLoginChallenges == 2 \* challenges requested by browsers in one behaviour
NumServers == 3        \* length of BlossomClient.servers
KeyPeriod == 3         \* length of the pattern a codec input repeats
NumCallers == 2        \* concurrent callers of create_event
NumRequests == 2       \* concurrent buy_listing requests

NPUB_LEN == 63         \* validate_npub: len(npub) == 63
HEX_LEN == 64          \* validate_hex_pubkey: len(hex_pubkey) == 64
NPUB_KEPT == 59        \* hex_to_npub: hex_pubkey[:59]
CHECKSUM_LEN == 6      \* npub_to_hex: decoded[:-6]
MAX_AGE == 300         \* validate_auth_event's max_age default
CHALLENGE_TTL == 300   \* validate_challenge's expiry window
AUTH_KIND == 22242     \* the authentication event kind
NOTE_KIND == 1         \* calculate_event_id's default kind
HTTP_RETRY_MAX == 2    \* Settings.HTTP_RETRY_MAX

None == "None"

-----------------------------------------------------------------------------
(* Hex strings and digests.                                                *)

\* len(bytes.fromhex(pubkey)); -1 stands for the ValueError it raises.
PubkeyBytes(pubkey) ==
    CASE pubkey \in {"alice", "bob"} -> 32
      [] pubkey = "short62" -> 31
      [] pubkey = "" -> 0
      [] OTHER -> -1

\* len(bytes.fromhex(signature)); -1 stands for the ValueError it raises.
\* bytes.fromhex skips ASCII whitespace: "hex128spaced" is 128 hex digits with
\* a blank between the bytes, a string of 191 characters.
SignatureBytes(sig) ==
    CASE sig.fmt \in {"hex128", "hex128spaced"} -> 64
      [] sig.fmt = "hex126" -> 63
      [] OTHER -> -1

\* hashlib.sha256(data).hexdigest()
Sha256(data) == <<"sha256", data>>

-----------------------------------------------------------------------------
(* Events: a dict with some keys possibly missing.                         *)

required_fields == <<"id", "pubkey", "created_at", "kind", "tags", "content", "sig">>

Fields == {required_fields[i] : i \in DOMAIN required_fields}

\* event.get(f, default)
Get(event, f, default) == IF f \in event.missing THEN default ELSE event[f]

\* Mutant: the content is left out of the serialised structure.
calculate_event_id_no_content(event) ==
    Sha256(<<0,
             Get(event, "pubkey", ""),
             Get(event, "created_at", 0),
             Get(event, "kind", NOTE_KIND),
             Get(event, "tags", <<>>),
             "">>)

\* One fixed arrangement of the elements of seq, the same for every order
\* they come in.
Canon(seq) ==
    CHOOSE p \in {[i \in DOMAIN seq |-> seq[f[i]]] : f \in Permutations(DOMAIN seq)} : TRUE

\* Mutant: the tags and the elements of each tag are serialised in a fixed
\* arrangement, whatever order the event has them in.
calculate_event_id_any_order(event) ==
    Sha256(<<0,
             Get(event, "pubkey", ""),
             Get(event, "created_at", 0),
             Get(event, "kind", NOTE_KIND),
             Canon([i \in DOMAIN Get(event, "tags", <<>>) |->
                       Canon(Get(event, "tags", <<>>)[i])]),
             Get(event, "content", "")>>)

\* json.dumps([0, pubkey, created_at, kind, tags, content], compact) hashed.
\* The compact JSON text of a list of strings, integers and lists of them is
\* one-to-one with the list, so the list stands for its text.
calculate_event_id(event) ==
    Sha256(<<0,
             Get(event, "pubkey", ""),
             Get(event, "created_at", 0),
             Get(event, "kind", NOTE_KIND),
             Get(event, "tags", <<>>),
             Get(event, "content", "")>>)

\* A value that is not a dict (None, a list, a string): it has no keys, and
\* event.get raises AttributeError.
NonDict ==
    [missing |-> Fields, pubkey |-> "", created_at |-> 0, kind |-> -1,
     tags |-> <<>>, content |-> "",
     id |-> Sha256(<<0, "", 0, -1, <<>>, "not a dict">>),
     sig |-> [fmt |-> "nothex", by |-> "nobody",
              over |-> Sha256(<<0, "", 0, -1, <<>>, "not a dict">>)]]

\* Where verify_nostr_signature returns: "accepted" is the one return of
\* True; "not_a_dict" and "bad_hex" are the returns from the except clauses.
VerifyStage(event, pubkey) ==
    IF event = NonDict
    THEN "not_a_dict"
    ELSE IF \/ "id" \in event.missing
            \/ "sig" \in event.missing
            \/ "pubkey" \in event.missing
            \/ event.pubkey = ""
    THEN "incomplete"
    ELSE IF event.pubkey # pubkey
    THEN "pubkey_mismatch"
    ELSE IF calculate_event_id(event) # event.id
    THEN "id_mismatch"
    ELSE IF \/ PubkeyBytes(pubkey) = -1
            \/ SignatureBytes(event.sig) = -1
    THEN "bad_hex"
    ELSE IF PubkeyBytes(pubkey) = 32 /\ SignatureBytes(event.sig) = 64
    THEN "accepted"
    ELSE "bad_length"

verify_nostr_signature(event, pubkey) == VerifyStage(event, pubkey) = "accepted"

\* The first of required_fields that the event lacks (0: none).
FirstMissing(event) ==
    IF \E i \in DOMAIN required_fields : required_fields[i] \in event.missing
    THEN CHOOSE i \in DOMAIN required_fields :
            /\ required_fields[i] \in event.missing
            /\ \A j \in 1..(i - 1) : required_fields[j] \notin event.missing
    ELSE 0

Abs(x) == IF x < 0 THEN -x ELSE x

\* for tag in tags: len(tag) >= 2 and tag[0] == 'challenge' and tag[1] == challenge
ChallengeFound(tags, challenge) ==
    \E i \in DOMAIN tags :
        /\ Len(tags[i]) >= 2
        /\ tags[i][1] = "challenge"
        /\ tags[i][2] = challenge

Reply(ok, reason) == [ok |-> ok, reason |-> reason]

\* Mutant: the kind is checked after the timestamp, the tags and the signature.
validate_auth_event_kind_last(event, challenge, t) ==
    IF FirstMissing(event) # 0
    THEN Reply(FALSE, "Missing field: " \o required_fields[FirstMissing(event)])
    ELSE IF Abs(t - event.created_at) > MAX_AGE
    THEN Reply(FALSE, "Event timestamp is too old or in the future")
    ELSE IF ~ ChallengeFound(event.tags, challenge)
    THEN Reply(FALSE, "Challenge not found in event tags")
    ELSE IF ~ verify_nostr_signature(event, event.pubkey)
    THEN Reply(FALSE, "Invalid signature")
    ELSE IF event.kind # AUTH_KIND
    THEN Reply(FALSE, "Invalid event kind for authentication")
    ELSE Reply(TRUE, "Valid authentication event")

\* Mutant: the timestamp window is one second too wide.
validate_auth_event_wide(event, challenge, t) ==
    IF FirstMissing(event) # 0
    THEN Reply(FALSE, "Missing field: " \o required_fields[FirstMissing(event)])
    ELSE IF event.kind # AUTH_KIND
    THEN Reply(FALSE, "Invalid event kind for authentication")
    ELSE IF Abs(t - event.created_at) > MAX_AGE + 1
    THEN Reply(FALSE, "Event timestamp is too old or in the future")
    ELSE IF ~ ChallengeFound(event.tags, challenge)
    THEN Reply(FALSE, "Challenge not found in event tags")
    ELSE IF ~ verify_nostr_signature(event, event.pubkey)
    THEN Reply(FALSE, "Invalid signature")
    ELSE Reply(TRUE, "Valid authentication event")

\* Mutant: only events from the past are refused for their timestamp.
validate_auth_event_past_only(event, challenge, t) ==
    IF FirstMissing(event) # 0
    THEN Reply(FALSE, "Missing field: " \o required_fields[FirstMissing(event)])
    ELSE IF event.kind # AUTH_KIND
    THEN Reply(FALSE, "Invalid event kind for authentication")
    ELSE IF t - event.created_at > MAX_AGE
    THEN Reply(FALSE, "Event timestamp is too old or in the future")
    ELSE IF ~ ChallengeFound(event.tags, challenge)
    THEN Reply(FALSE, "Challenge not found in event tags")
    ELSE IF ~ verify_nostr_signature(event, event.pubkey)
    THEN Reply(FALSE, "Invalid signature")
    ELSE Reply(TRUE, "Valid authentication event")

\* validate_auth_event(event, challenge) at time t, for an event that is a dict.
validate_auth_event(event, challenge, t) ==
    IF FirstMissing(event) # 0
    THEN Reply(FALSE, "Missing field: " \o required_fields[FirstMissing(event)])
    ELSE IF event.kind # AUTH_KIND
    THEN Reply(FALSE, "Invalid event kind for authentication")
    ELSE IF Abs(t - event.created_at) > MAX_AGE
    THEN Reply(FALSE, "Event timestamp is too old or in the future")
    ELSE IF ~ ChallengeFound(event.tags, challenge)
    THEN Reply(FALSE, "Challenge not found in event tags")
    ELSE IF ~ verify_nostr_signature(event, event.pubkey)
    THEN Reply(FALSE, "Invalid signature")
    ELSE Reply(TRUE, "Valid authentication event")

-----------------------------------------------------------------------------
(* The events the model submits.                                           *)

\* generate_challenge(): the n-th value drawn from secrets.token_hex(32).
Challenge(n) == "c" \o ToString(n)

ChallengeTag(c) == <<"challenge", c>>

\* Tag lists around a challenge value c.
TagLists(c) ==
    { <<>>,
      << ChallengeTag(c) >>,
      << <<"relay", "wss://r">>, ChallengeTag(c) >>,
      << <<"challenge">> >>,
      << <<c, "challenge">> >> }

AgeOffsets == {-(MAX_AGE + 1), -MAX_AGE, 0, MAX_AGE, MAX_AGE + 1}

\* A digest that is the id of no event of the model.
BogusId == Sha256(<<0, "", 0, 0, <<>>, "bogus">>)

\* The event with the given fields; idc says whether its id is its own
\* canonical hash, and the signature is made by `signer` over that id. A key
\* the dict lacks has no value: its slot holds a fixed filler nothing reads.
MkEvent(missing, pubkey, created_at, kind, tags, content, idc, fmt, signer) ==
    LET body == [missing |-> missing,
                 pubkey |-> IF "pubkey" \in missing THEN "" ELSE pubkey,
                 created_at |-> IF "created_at" \in missing THEN 0 ELSE created_at,
                 kind |-> IF "kind" \in missing THEN 0 ELSE kind,
                 tags |-> IF "tags" \in missing THEN <<>> ELSE tags,
                 content |-> IF "content" \in missing THEN "" ELSE content]
        id == IF idc = "own" /\ "id" \notin missing
              THEN calculate_event_id(body) ELSE BogusId
    IN  [missing |-> missing, pubkey |-> body.pubkey,
         created_at |-> body.created_at, kind |-> body.kind,
         tags |-> body.tags, content |-> body.content, id |-> id,
         sig |-> IF "sig" \in missing
                 THEN [fmt |-> "nothex", by |-> "nobody", over |-> BogusId]
                 ELSE [fmt |-> fmt, by |-> signer, over |-> id]]

NoEvent == MkEvent({}, "", 0, 0, <<>>, "", "bogus", "nothex", "nobody")

\* Every event over the given pools.
EventsOver(missings, pubkeys, times, kinds, taglists, contents, fmts) ==
    { MkEvent(m, pk, ts, k, tg, ct, idc, fmt,
              IF sg = "self" THEN pk ELSE "mallory") :
        m \in missings, pk \in pubkeys, ts \in times, k \in kinds,
        tg \in taglists, ct \in contents, idc \in {"own", "bogus"},
        fmt \in fmts, sg \in {"self", "mallory"} }

MissingChoices == {{}} \cup {{f} : f \in Fields}

\* The events the pure functions are applied to.
PureEvents ==
    EventsOver(MissingChoices, {"alice", "short62", "nothex", ""},
               AgeOffsets, {AUTH_KIND, NOTE_KIND},
               TagLists(Challenge(1)) \cup {<< ChallengeTag(Challenge(2)) >>},
               {"", "hi"}, {"hex128", "hex128spaced", "hex126", "nothex"})

-----------------------------------------------------------------------------
(* NostrAuthManager: the challenge store and its three methods, each as    *)
(* the store it leaves (and, for validate_challenge, what it returns).     *)

EmptyStore == [s \in {} |-> None]

Put(store, s, v) == [x \in DOMAIN store \cup {s} |-> IF x = s THEN v ELSE store[x]]

Del(store, s) == [x \in DOMAIN store \ {s} |-> store[x]]

\* Mutant: an entry already stored for the session is kept.
create_challenge_keep(store, session_id, challenge, t) ==
    IF session_id \in DOMAIN store
    THEN store
    ELSE Put(store, session_id, [challenge |-> challenge, created_at |-> t])

\* self.active_challenges[session_id] = {'challenge': ..., 'created_at': time.time()}
create_challenge(store, session_id, challenge, t) ==
    Put(store, session_id, [challenge |-> challenge, created_at |-> t])

\* Mutant: an entry aged exactly CHALLENGE_TTL is expired already.
validate_challenge_early(store, session_id, challenge, t) ==
    IF session_id \notin DOMAIN store
    THEN [result |-> FALSE, store |-> store]
    ELSE IF store[session_id].challenge # challenge
    THEN [result |-> FALSE, store |-> store]
    ELSE IF t - store[session_id].created_at >= CHALLENGE_TTL
    THEN [result |-> FALSE, store |-> Del(store, session_id)]
    ELSE [result |-> TRUE, store |-> store]

\* Mutant: a successful validation removes the entry.
validate_challenge_once(store, session_id, challenge, t) ==
    IF session_id \notin DOMAIN store
    THEN [result |-> FALSE, store |-> store]
    ELSE IF store[session_id].challenge # challenge
    THEN [result |-> FALSE, store |-> store]
    ELSE IF t - store[session_id].created_at > CHALLENGE_TTL
    THEN [result |-> FALSE, store |-> Del(store, session_id)]
    ELSE [result |-> TRUE, store |-> Del(store, session_id)]

validate_challenge(store, session_id, challenge, t) ==
    IF session_id \notin DOMAIN store
    THEN [result |-> FALSE, store |-> store]
    ELSE IF store[session_id].challenge # challenge
    THEN [result |-> FALSE, store |-> store]
    ELSE IF t - store[session_id].created_at > CHALLENGE_TTL
    THEN [result |-> FALSE, store |-> Del(store, session_id)]
    ELSE [result |-> TRUE, store |-> store]

consume_challenge(store, session_id) ==
    IF session_id \in DOMAIN store THEN Del(store, session_id) ELSE store

\* The record of a manager call: its arguments, its result, when it was made
\* and the store it found.
Called(op, session_id, challenge, result) ==
    [op |-> op, session_id |-> session_id, challenge |-> challenge,
     result |-> result, at |-> now, before |-> active_challenges]

SessionIds == {"default", "s1"}

\* The least number of clock steps (of one second or of one expiry window)
\* that lead to time t.
TicksTo(t) == (t \div CHALLENGE_TTL) + (t % CHALLENGE_TTL)

\* One second, or a whole expiry window, passes.
Tick(d) ==
    /\ TicksTo(now + d) <= MaxTicks
    /\ now' = now + d
    /\ UNCHANGED <<authVars, loginVars, call, blob, supaVars, shopVars>>

\* The next challenge value is drawn and stored for s on behalf of `who`.
Draw(s, who) ==
    /\ active_challenges' =
          create_challenge(active_challenges, s, Challenge(Len(issued) + 1), now)
    /\ issued' = Append(issued, [for |-> s, by |-> who, at |-> now])

\* auth_manager.create_challenge(s)
CreateChallenge(s) ==
    /\ Len(issued) < MaxChallenges
    /\ Draw(s, s)
    /\ ret' = Called("create", s, Challenge(Len(issued) + 1), TRUE)

\* auth_manager.validate_challenge(s, c)
ValidateChallenge(s, c) ==
    LET r == validate_challenge(active_challenges, s, c, now)
    IN  /\ active_challenges' = r.store
        /\ ret' = Called("validate", s, c, r.result)
        /\ UNCHANGED issued

\* auth_manager.consume_challenge(s)
ConsumeChallenge(s) ==
    /\ active_challenges' = consume_challenge(active_challenges, s)
    /\ ret' = Called("consume", s, "", TRUE)
    /\ UNCHANGED issued

\* The challenge values a caller can present: those drawn so far, and one
\* that was never drawn.
Candidates == {Challenge(n) : n \in 0..Len(issued)}

NextManager ==
    \/ \E d \in {1, CHALLENGE_TTL} : Tick(d)
    \/ \E s \in SessionIds :
          CreateChallenge(s) /\ UNCHANGED <<now, loginVars, call, blob, supaVars, shopVars>>
    \/ \E s \in SessionIds, c \in Candidates :
          ValidateChallenge(s, c) /\ UNCHANGED <<now, loginVars, call, blob, supaVars, shopVars>>
    \/ \E s \in SessionIds :
          ConsumeChallenge(s) /\ UNCHANGED <<now, loginVars, call, blob, supaVars, shopVars>>

-----------------------------------------------------------------------------
(* The login routes of routes.py. Each browser holds a Flask session       *)
(* cookie; no route ever sets session['session_id'], so every request      *)
(* addresses the challenge store with the key 'default'.                   *)

Browsers == {"b1", "b2"}

\* session.get('session_id', 'default')
SessionKey(b) == "default"

\* When the challenge value c was drawn.
IssuedAt(c) == issued[CHOOSE n \in DOMAIN issued : Challenge(n) = c].at

\* A response, with what the request found: the challenge value it was about,
\* whether that value was drawn more than CHALLENGE_TTL ago, and whether the
\* request repeated the event of the browser's last successful login.
Response(b, route, success, error, challenge, replay) ==
    [browser |-> b, route |-> route, success |-> success, error |-> error,
     challenge |-> challenge,
     expired |-> challenge # None /\ now - IssuedAt(challenge) > CHALLENGE_TTL,
     replay |-> replay]

\* GET /login
GetLogin(b) ==
    /\ Len(issued) < MaxLoginChallenges
    /\ Draw(SessionKey(b), b)
    /\ session' = [session EXCEPT ![b].auth_challenge = Challenge(Len(issued) + 1)]
    /\ resp' = Response(b, "GET /login", TRUE, "", None, FALSE)
    /\ accepted' = [accepted EXCEPT ![b] = NoEvent]
    /\ UNCHANGED <<now, ret, users, call, blob, supaVars, shopVars>>

\* GET /api/challenge
ApiGetChallenge(b) ==
    /\ Len(issued) < MaxLoginChallenges
    /\ Draw(SessionKey(b), b)
    /\ resp' = Response(b, "GET /api/challenge", TRUE, "", None, FALSE)
    /\ accepted' = [accepted EXCEPT ![b] = NoEvent]
    /\ UNCHANGED <<now, ret, session, users, call, blob, supaVars, shopVars>>

\* What handle_extension_auth answers to `event` (NoEvent: none was sent).
ExtensionAuthReply(b, event) ==
    IF event = NoEvent
    THEN Reply(FALSE, "No authentication event provided")
    ELSE IF session[b].auth_challenge = None
    THEN Reply(FALSE, "No challenge found")
    ELSE validate_auth_event(event, session[b].auth_challenge, now)

\* POST /login with auth_type 'extension': handle_extension_auth
PostLoginExtension(b, event) ==
    LET r == ExtensionAuthReply(b, event)
    IN  /\ resp' = Response(b, "POST /login", r.ok,
                            IF r.ok THEN "" ELSE r.reason,
                            session[b].auth_challenge,
                            r.ok /\ event = accepted[b])
        /\ IF r.ok
           THEN /\ users' = users \cup {event.pubkey}
                /\ session' = [session EXCEPT ![b].user_id = event.pubkey]
                /\ active_challenges' =
                      consume_challenge(active_challenges, SessionKey(b))
                /\ accepted' = [accepted EXCEPT ![b] = event]
           ELSE UNCHANGED <<users, session, active_challenges, accepted>>
        /\ UNCHANGED <<now, issued, ret, call, blob, supaVars, shopVars>>

\* GET /logout: session.clear()
Logout(b) ==
    /\ session' = [session EXCEPT ![b] = [auth_challenge |-> None, user_id |-> None]]
    /\ resp' = Response(b, "GET /logout", TRUE, "", None, FALSE)
    /\ accepted' = [accepted EXCEPT ![b] = NoEvent]
    /\ UNCHANGED <<now, authVars, users, call, blob, supaVars, shopVars>>

\* A well-formed authentication event made at `now` by pubkey for challenge c.
AuthEvent(pubkey, c) ==
    MkEvent({}, pubkey, now, AUTH_KIND, << ChallengeTag(c) >>, "", "own",
            "hex128", pubkey)

\* The events a browser may post: none; for each challenge value drawn so far
\* (and one never drawn) a well-formed event and the events that differ from
\* it in one respect: made too long ago, of another kind, without the tag,
\* with an id that is not its hash, with a signature that is not hex, or with
\* a 64-byte signature that somebody else made.
LoginEvents ==
    {NoEvent} \cup
    UNION { { AuthEvent("alice", c),
              AuthEvent("bob", c),
              [AuthEvent("alice", c) EXCEPT !.sig.by = "mallory"],
              [AuthEvent("alice", c) EXCEPT !.sig.fmt = "nothex"],
              MkEvent({}, "alice", now - (MAX_AGE + 1), AUTH_KIND,
                      << ChallengeTag(c) >>, "", "own", "hex128", "alice"),
              MkEvent({}, "alice", now, NOTE_KIND,
                      << ChallengeTag(c) >>, "", "own", "hex128", "alice"),
              MkEvent({}, "alice", now, AUTH_KIND,
                      << ChallengeTag(c) >>, "", "bogus", "hex128", "alice"),
              MkEvent({}, "alice", now, AUTH_KIND, <<>>, "", "own", "hex128", "alice"),
              MkEvent({"content"}, "alice", now, AUTH_KIND,
                      << ChallengeTag(c) >>, "", "own", "hex128", "alice") } :
            c \in Candidates }

-----------------------------------------------------------------------------
(* BlossomClient: one operation over the configured servers, each server   *)
(* answering its request with a status and a body, or with an exception    *)
(* (connection error, timeout).                                            *)

Servers == 1..NumServers

Blobs == {"hello", "evil"}

\* What a server may do with a GET /<sha256>.
GetAnswers ==
    {[raises |-> FALSE, status |-> 200, body |-> b] : b \in Blobs}
    \cup {[raises |-> FALSE, status |-> st, body |-> ""] : st \in {404, 500}}
    \cup {[raises |-> TRUE, status |-> 0, body |-> ""]}

\* calculate_file_hash
calculate_file_hash(file_data) == Sha256(file_data)

Found(content, contacted) ==
    [found |-> TRUE, content |-> content, contacted |-> contacted]

NotFound(contacted) == [found |-> FALSE, content |-> "", contacted |-> contacted]

\* Mutant: the first body served with status 200 is returned unchecked.
RECURSIVE GetUncheckedFrom(_, _, _, _)
GetUncheckedFrom(i, sha256_hash, answers, contacted) ==
    IF i > NumServers
    THEN NotFound(contacted)
    ELSE IF ~ answers[i].raises /\ answers[i].status = 200
    THEN Found(answers[i].body, Append(contacted, i))
    ELSE GetUncheckedFrom(i + 1, sha256_hash, answers, Append(contacted, i))

get_blob_unchecked(sha256_hash, answers) ==
    GetUncheckedFrom(1, sha256_hash, answers, <<>>)

\* Mutant: get_blob gives up at the first server that does not serve the blob.
get_blob_first_answer(sha256_hash, answers) ==
    IF /\ ~ answers[1].raises
       /\ answers[1].status = 200
       /\ calculate_file_hash(answers[1].body) = sha256_hash
    THEN Found(answers[1].body, <<1>>)
    ELSE NotFound(<<1>>)

\* The loop of get_blob from server i on.
RECURSIVE GetBlobFrom(_, _, _, _)
GetBlobFrom(i, sha256_hash, answers, contacted) ==
    IF i > NumServers
    THEN NotFound(contacted)
    ELSE IF /\ ~ answers[i].raises
            /\ answers[i].status = 200
            /\ calculate_file_hash(answers[i].body) = sha256_hash
    THEN Found(answers[i].body, Append(contacted, i))
    ELSE GetBlobFrom(i + 1, sha256_hash, answers, Append(contacted, i))

\* get_blob(sha256_hash): the bytes returned (found) or None, and the servers
\* that were sent a request, in order.
get_blob(sha256_hash, answers) == GetBlobFrom(1, sha256_hash, answers, <<>>)

BlobIdle == [op |-> "idle", hash |-> Sha256(""), answers |-> <<>>,
             found |-> FALSE, content |-> "", contacted |-> <<>>]

GetBlob(sha256_hash, answers) ==
    /\ blob' = [op |-> "get_blob", hash |-> sha256_hash, answers |-> answers,
                found |-> get_blob(sha256_hash, answers).found,
                content |-> get_blob(sha256_hash, answers).content,
                contacted |-> get_blob(sha256_hash, answers).contacted]
    /\ UNCHANGED <<now, authVars, loginVars, call, supaVars, shopVars>>

\* The body of a 200 answer to PUT /upload: a JSON object (with or without
\* 'url', and with the hash the server says it stored), JSON that is not an
\* object, or text that is not JSON.
UploadBodies ==
    {[json |-> "object", url |-> u, sha256 |-> Sha256(b)] :
        u \in {None, "https://cdn/blob"}, b \in Blobs}
    \cup {[json |-> j, url |-> None, sha256 |-> Sha256("")] : j \in {"array", "text"}}

NoBody == [json |-> "text", url |-> None, sha256 |-> Sha256("")]

\* What a server may do with a PUT /upload.
UploadAnswers ==
    {[raises |-> FALSE, status |-> 200, body |-> b] : b \in UploadBodies}
    \cup {[raises |-> FALSE, status |-> 500, body |-> NoBody],
          [raises |-> TRUE, status |-> 0, body |-> NoBody]}

NoDescriptor == [server |-> 0, sha256 |-> Sha256(""), url |-> None]

\* _upload_to_server: the descriptor built from a 200 answer, or None
\* (returned: FALSE). response.json() raises on text that is not JSON and
\* result.get raises on JSON that is not an object; both end in the except
\* clause, which returns None. url None stands for the default
\* f"{server}/{file_hash}".
upload_to_server(server, file_hash, answer) ==
    IF answer.raises
    THEN [returned |-> FALSE, descriptor |-> NoDescriptor]
    ELSE IF answer.status = 200
    THEN IF answer.body.json = "object"
         THEN [returned |-> TRUE,
               descriptor |-> [server |-> server, sha256 |-> file_hash,
                               url |-> answer.body.url]]
         ELSE [returned |-> FALSE, descriptor |-> NoDescriptor]
    ELSE [returned |-> FALSE, descriptor |-> NoDescriptor]

\* The loop of upload_blob from server i on.
RECURSIVE UploadFrom(_, _, _, _)
UploadFrom(i, file_hash, answers, contacted) ==
    IF i > NumServers
    THEN [found |-> FALSE, descriptor |-> NoDescriptor, contacted |-> contacted]
    ELSE IF upload_to_server(i, file_hash, answers[i]).returned
    THEN [found |-> TRUE,
          descriptor |-> upload_to_server(i, file_hash, answers[i]).descriptor,
          contacted |-> Append(contacted, i)]
    ELSE UploadFrom(i + 1, file_hash, answers, Append(contacted, i))

\* Mutant: every server is sent the upload, the first descriptor is returned.
upload_blob_every(file_data, answers) ==
    [found |-> UploadFrom(1, calculate_file_hash(file_data), answers, <<>>).found,
     descriptor |->
        UploadFrom(1, calculate_file_hash(file_data), answers, <<>>).descriptor,
     contacted |-> [i \in Servers |-> i]]

\* Mutant: the upload is given up when the first server fails.
upload_blob_give_up(file_data, answers) ==
    IF upload_to_server(1, calculate_file_hash(file_data), answers[1]).returned
    THEN UploadFrom(1, calculate_file_hash(file_data), answers, <<>>)
    ELSE [found |-> FALSE, descriptor |-> NoDescriptor, contacted |-> <<1>>]

\* upload_blob(file_data, ...): the descriptor returned (found) or None, and
\* the servers that were sent a request, in order.
upload_blob(file_data, answers) ==
    UploadFrom(1, calculate_file_hash(file_data), answers, <<>>)

UploadBlob(file_data, answers) ==
    /\ blob' = [op |-> "upload_blob", data |-> file_data, answers |-> answers,
                found |-> upload_blob(file_data, answers).found,
                descriptor |-> upload_blob(file_data, answers).descriptor,
                contacted |-> upload_blob(file_data, answers).contacted]
    /\ UNCHANGED <<now, authVars, loginVars, call, supaVars, shopVars>>

\* What a server may do with a HEAD /<sha256>.
HeadAnswers ==
    {[raises |-> FALSE, status |-> st] : st \in {200, 404, 500}}
    \cup {[raises |-> TRUE, status |-> 0]}

\* Mutant: has_blob gives up at the first server that raises.
RECURSIVE HasStopFrom(_, _, _)
HasStopFrom(i, answers, contacted) ==
    IF i > NumServers
    THEN [found |-> FALSE, server |-> 0, contacted |-> contacted]
    ELSE IF answers[i].raises
    THEN [found |-> FALSE, server |-> 0, contacted |-> Append(contacted, i)]
    ELSE IF answers[i].status = 200
    THEN [found |-> TRUE, server |-> i, contacted |-> Append(contacted, i)]
    ELSE HasStopFrom(i + 1, answers, Append(contacted, i))

has_blob_stop_on_error(sha256_hash, answers) == HasStopFrom(1, answers, <<>>)

\* Mutant: a server that did not answer 200 is sent the request a second time
\* before the next server is tried.
RECURSIVE HasRetryFrom(_, _, _)
HasRetryFrom(i, answers, contacted) ==
    IF i > NumServers
    THEN [found |-> FALSE, server |-> 0, contacted |-> contacted]
    ELSE IF ~ answers[i].raises /\ answers[i].status = 200
    THEN [found |-> TRUE, server |-> i, contacted |-> Append(contacted, i)]
    ELSE HasRetryFrom(i + 1, answers, Append(Append(contacted, i), i))

has_blob_retry(sha256_hash, answers) == HasRetryFrom(1, answers, <<>>)

\* The loop of has_blob from server i on.
RECURSIVE HasFrom(_, _, _)
HasFrom(i, answers, contacted) ==
    IF i > NumServers
    THEN [found |-> FALSE, server |-> 0, contacted |-> contacted]
    ELSE IF ~ answers[i].raises /\ answers[i].status = 200
    THEN [found |-> TRUE, server |-> i, contacted |-> Append(contacted, i)]
    ELSE HasFrom(i + 1, answers, Append(contacted, i))

\* has_blob(sha256_hash): (True, server) or (False, None), server 0 standing
\* for None, and the servers that were sent a request, in order.
has_blob(sha256_hash, answers) == HasFrom(1, answers, <<>>)

HasBlob(sha256_hash, answers) ==
    /\ blob' = [op |-> "has_blob", hash |-> sha256_hash, answers |-> answers,
                found |-> has_blob(sha256_hash, answers).found,
                server |-> has_blob(sha256_hash, answers).server,
                contacted |-> has_blob(sha256_hash, answers).contacted]
    /\ UNCHANGED <<now, authVars, loginVars, call, supaVars, shopVars>>

\* An entry of a served list: a JSON object with (or, sha256 None, without)
\* the key 'sha256', or a JSON value that is not an object.
Entry(h) == [dict |-> TRUE, sha256 |-> h]
Junk == [dict |-> FALSE, sha256 |-> None]

\* The body of a 200 answer to GET /list/<pubkey>.
ListBodies ==
    {[json |-> "array", entries |-> es] :
        es \in { <<>>, <<Entry("h1")>>, <<Entry("h1"), Entry("h2")>>,
                 <<Entry("h2"), Entry("h2")>>, <<Entry(None)>>,
                 <<Junk>>, <<Entry("h1"), Junk>> }}
    \cup {[json |-> j, entries |-> <<>>] : j \in {"object", "text"}}

\* What a server may do with a GET /list/<pubkey>.
ListAnswers ==
    {[raises |-> FALSE, status |-> 200, body |-> b] : b \in ListBodies}
    \cup {[raises |-> FALSE, status |-> 500, body |-> [json |-> "text", entries |-> <<>>]],
          [raises |-> TRUE, status |-> 0, body |-> [json |-> "text", entries |-> <<>>]]}

\* The first loop of list_user_blobs from server i on: the lists served with
\* status 200 are appended to `blobs`; response.json() raising on a body that
\* is not JSON skips the server, as a body that is not a list does.
RECURSIVE ListFrom(_, _, _)
ListFrom(i, answers, blobs) ==
    IF i > NumServers
    THEN blobs
    ELSE IF /\ ~ answers[i].raises
            /\ answers[i].status = 200
            /\ answers[i].body.json = "array"
    THEN ListFrom(i + 1, answers, blobs \o answers[i].body.entries)
    ELSE ListFrom(i + 1, answers, blobs)

\* The second loop: entries whose sha256 was not seen before are kept.
RECURSIVE Unique(_, _, _, _)
Unique(blobs, i, seen_hashes, unique_blobs) ==
    IF i > Len(blobs)
    THEN unique_blobs
    ELSE IF blobs[i].sha256 \notin seen_hashes
    THEN Unique(blobs, i + 1, seen_hashes \cup {blobs[i].sha256},
                Append(unique_blobs, blobs[i]))
    ELSE Unique(blobs, i + 1, seen_hashes, unique_blobs)

\* Mutant: list_user_blobs without its outer try: the exception of the
\* deduplication loop reaches the caller.
list_user_blobs_no_try(answers) ==
    LET blobs == ListFrom(1, answers, <<>>)
    IN  [escaped |-> \E i \in DOMAIN blobs : ~ blobs[i].dict,
         raised |-> \E i \in DOMAIN blobs : ~ blobs[i].dict,
         list |-> IF \E i \in DOMAIN blobs : ~ blobs[i].dict
                  THEN <<>>
                  ELSE Unique(blobs, 1, {}, <<>>),
         contacted |-> [i \in Servers |-> i]]

\* list_user_blobs(pubkey): blob.get raises on an entry that is not an
\* object, outside the per-server try (raised); the outer except returns [],
\* so that no exception reaches the caller (escaped).
list_user_blobs(answers) ==
    LET blobs == ListFrom(1, answers, <<>>)
    IN  [escaped |-> FALSE,
         raised |-> \E i \in DOMAIN blobs : ~ blobs[i].dict,
         list |-> IF \E i \in DOMAIN blobs : ~ blobs[i].dict
                  THEN <<>>
                  ELSE Unique(blobs, 1, {}, <<>>),
         contacted |-> [i \in Servers |-> i]]

ListUserBlobs(answers) ==
    /\ blob' = [op |-> "list_user_blobs", answers |-> answers,
                escaped |-> list_user_blobs(answers).escaped,
                raised |-> list_user_blobs(answers).raised,
                list |-> list_user_blobs(answers).list,
                contacted |-> list_user_blobs(answers).contacted]
    /\ UNCHANGED <<now, authVars, loginVars, call, supaVars, shopVars>>

\* What a server may do with a DELETE /<sha256>.
DeleteAnswers ==
    {[raises |-> FALSE, status |-> st] : st \in {200, 204, 404, 401}}
    \cup {[raises |-> TRUE, status |-> 0]}

\* Mutant: an answer 404 does not count as a success.
delete_blob_strict(sha256_hash, answers) ==
    [result |-> \E i \in Servers :
                    ~ answers[i].raises /\ answers[i].status \in {200, 204},
     contacted |-> [i \in Servers |-> i]]

\* The loop of delete_blob from server i on: success_count.
RECURSIVE DeleteFrom(_, _, _)
DeleteFrom(i, answers, success_count) ==
    IF i > NumServers
    THEN success_count
    ELSE IF ~ answers[i].raises /\ answers[i].status \in {200, 204, 404}
    THEN DeleteFrom(i + 1, answers, success_count + 1)
    ELSE DeleteFrom(i + 1, answers, success_count)

\* delete_blob(sha256_hash, auth_event): every server is sent a request.
delete_blob(sha256_hash, answers) ==
    [result |-> DeleteFrom(1, answers, 0) > 0,
     contacted |-> [i \in Servers |-> i]]

DeleteBlob(sha256_hash, answers) ==
    /\ blob' = [op |-> "delete_blob", hash |-> sha256_hash, answers |-> answers,
                result |-> delete_blob(sha256_hash, answers).result,
                contacted |-> delete_blob(sha256_hash, answers).contacted]
    /\ UNCHANGED <<now, authVars, loginVars, call, supaVars, shopVars>>

\* One operation is run against servers that answer in any way.
NextBlob ==
    /\ blob.op = "idle"
    /\ \/ \E h \in {Sha256(b) : b \in Blobs \cup {"absent"}},
             answers \in [Servers -> GetAnswers] : GetBlob(h, answers)
       \/ \E d \in Blobs, answers \in [Servers -> UploadAnswers] :
             UploadBlob(d, answers)
       \/ \E answers \in [Servers -> HeadAnswers] : HasBlob(Sha256("hello"), answers)
       \/ \E answers \in [Servers -> ListAnswers] : ListUserBlobs(answers)
       \/ \E answers \in [Servers -> DeleteAnswers] :
             DeleteBlob(Sha256("hello"), answers)

-----------------------------------------------------------------------------
(* The pure functions of nostr_auth.py applied to drawn inputs.            *)

Idle == [op |-> "idle", event |-> NoEvent, arg |-> "", ok |-> FALSE,
         reason |-> "", field |-> ""]

\* verify_nostr_signature(event, pubkey)
Verify(event, pubkey) ==
    /\ call' = [op |-> "verify", event |-> event, arg |-> pubkey,
                ok |-> verify_nostr_signature(event, pubkey),
                reason |-> VerifyStage(event, pubkey), field |-> ""]
    /\ UNCHANGED <<now, authVars, loginVars, blob, supaVars, shopVars>>

\* validate_auth_event(event, challenge)
Validate(event, challenge) ==
    /\ call' = [op |-> "validate", event |-> event, arg |-> challenge,
                ok |-> validate_auth_event(event, challenge, now).ok,
                reason |-> validate_auth_event(event, challenge, now).reason,
                field |-> ""]
    /\ UNCHANGED <<now, authVars, loginVars, blob, supaVars, shopVars>>

\* The events that differ from `event` in the one field f, id and sig kept.
Tampered(event, f) ==
    CASE f = "content" ->
            {[event EXCEPT !.content = c] : c \in {"", "hi", "hi!"} \ {event.content}}
      [] f = "created_at" ->
            {[event EXCEPT !.created_at = t] :
                t \in {event.created_at - 1, event.created_at + 1}}
      [] f = "kind" ->
            {[event EXCEPT !.kind = k] : k \in {AUTH_KIND, NOTE_KIND} \ {event.kind}}
      [] f = "tags" ->
            UNION { {[event EXCEPT !.tags[i] = tg] :
                        tg \in {ChallengeTag(Challenge(1)), ChallengeTag(Challenge(2)),
                                <<Challenge(1), "challenge">>, <<"challenge">>}
                               \ {event.tags[i]}} :
                    i \in DOMAIN event.tags }

\* An event that verified is changed in one field and verified again.
Tamper(f) ==
    /\ call.op = "verify"
    /\ call.ok
    /\ f \notin call.event.missing
    /\ \E e \in Tampered(call.event, f) :
          call' = [op |-> "tamper", event |-> e, arg |-> call.arg,
                   ok |-> verify_nostr_signature(e, call.arg),
                   reason |-> VerifyStage(e, call.arg), field |-> f]
    /\ UNCHANGED <<now, authVars, loginVars, blob, supaVars, shopVars>>

Reverse(seq) == [i \in DOMAIN seq |-> seq[Len(seq) + 1 - i]]

\* The events whose id is compared with that of `event`: one with the same
\* five hashed fields but another id and signature ("resigned"), one with the
\* tag list in reverse order ("outer"), those with the elements of one tag in
\* reverse order ("inner"), and one with another content ("content").
Variants(event, how) ==
    CASE how = "resigned" ->
            {[event EXCEPT !.id = BogusId,
                           !.sig = [fmt |-> "nothex", by |-> "mallory", over |-> BogusId]]}
      [] how = "outer" -> {[event EXCEPT !.tags = Reverse(event.tags)]}
      [] how = "inner" ->
            {[event EXCEPT !.tags[i] = Reverse(event.tags[i])] : i \in DOMAIN event.tags}
      [] how = "content" -> {[event EXCEPT !.content = "hi!"]}

\* The events whose ids are compared.
IdEvents ==
    EventsOver({{}}, {"alice"}, {0}, {AUTH_KIND, NOTE_KIND},
               TagLists(Challenge(1)), {"", "hi"}, {"hex128"})

\* calculate_event_id(event) and calculate_event_id(other)
EventId(event, other, how) ==
    /\ call' = [op |-> "event_id", event |-> event, other |-> other, how |-> how,
                id |-> calculate_event_id(event),
                other_id |-> calculate_event_id(other)]
    /\ UNCHANGED <<now, authVars, loginVars, blob, supaVars, shopVars>>

-----------------------------------------------------------------------------
(* The key codec of nostr_auth.py: npub_to_hex and hex_to_npub.            *)

HexDigits == <<"0", "1", "2", "3", "4", "5", "6", "7",
               "8", "9", "a", "b", "c", "d", "e", "f">>

\* The Bech32 character set of npub_to_hex.
CHARSET == <<"q", "p", "z", "r", "y", "9", "x", "8",
             "g", "f", "2", "t", "v", "d", "w", "0",
             "s", "3", "j", "n", "5", "4", "k", "h",
             "c", "e", "6", "m", "u", "a", "7", "l">>

Range(seq) == {seq[i] : i \in DOMAIN seq}

\* seq.index(c), counted from 0.
Index(seq, c) == (CHOOSE i \in DOMAIN seq : seq[i] = c) - 1

\* str.lower() on one character.
Lower(c) ==
    CASE c = "A" -> "a" [] c = "B" -> "b" [] c = "C" -> "c"
      [] c = "D" -> "d" [] c = "E" -> "e" [] c = "F" -> "f"
      [] OTHER -> c

NPUB == <<"n", "p", "u", "b">>

\* validate_npub
validate_npub(npub) ==
    /\ Len(npub) = NPUB_LEN
    /\ SubSeq(npub, 1, 4) = NPUB

\* validate_hex_pubkey
validate_hex_pubkey(hex_pubkey) ==
    /\ Len(hex_pubkey) = HEX_LEN
    /\ \A i \in DOMAIN hex_pubkey : Lower(hex_pubkey[i]) \in Range(HexDigits)

RECURSIVE Pow2(_)
Pow2(n) == IF n = 0 THEN 1 ELSE 2 * Pow2(n - 1)

\* f'{b:02x}'
Hex02(b) == << HexDigits[(b \div 16) + 1], HexDigits[(b % 16) + 1] >>

\* ''.join(f'{b:02x}' for b in hex_bytes)
JoinHex(hex_bytes) ==
    [i \in 1..(2 * Len(hex_bytes)) |-> Hex02(hex_bytes[(i + 1) \div 2])[2 - (i % 2)]]

\* The loops of npub_to_hex:
\*   for value in decoded: acc = (acc << 5) | value; bits += 5
\*       while bits >= 8: bits -= 8; hex_bytes.append((acc >> bits) & 0xff)
\* acc is the values read so far, five bits each, the first value highest; a
\* byte is appended as soon as eight more bits are held. So hex_bytes[j] is
\* bits 8j-8 .. 8j-1 of the values written one after the other, and the bits
\* that remain after the last whole byte are never appended.
\* Bit n (from 0) of the values written one after the other.
Bit(decoded, n) == (decoded[(n \div 5) + 1] \div Pow2(4 - (n % 5))) % 2

Byte(decoded, j) ==
    128 * Bit(decoded, 8 * j - 8) + 64 * Bit(decoded, 8 * j - 7)
    + 32 * Bit(decoded, 8 * j - 6) + 16 * Bit(decoded, 8 * j - 5)
    + 8 * Bit(decoded, 8 * j - 4) + 4 * Bit(decoded, 8 * j - 3)
    + 2 * Bit(decoded, 8 * j - 2) + Bit(decoded, 8 * j - 1)

Repack(decoded) ==
    [j \in 1..((5 * Len(decoded)) \div 8) |-> Byte(decoded, j)]

Failure == [ok |-> FALSE, value |-> <<>>]

\* npub_to_hex(npub): None (ok: FALSE) or the hex string.
npub_to_hex(npub) ==
    IF ~ validate_npub(npub)
    THEN Failure
    ELSE LET data == SubSeq(npub, 5, Len(npub))
         IN  IF \E i \in DOMAIN data : data[i] \notin Range(CHARSET)
             THEN Failure
             ELSE [ok |-> TRUE,
                   value |-> JoinHex(Repack(
                      [i \in 1..(Len(data) - CHECKSUM_LEN) |-> Index(CHARSET, data[i])]))]

\* hex_to_npub(hex_pubkey): None (ok: FALSE) or f"npub{hex_pubkey[:59]}".
hex_to_npub(hex_pubkey) ==
    IF ~ validate_hex_pubkey(hex_pubkey)
    THEN Failure
    ELSE [ok |-> TRUE, value |-> NPUB \o SubSeq(hex_pubkey, 1, NPUB_KEPT)]

\* The string of n characters that repeats the pattern p.
Repeat(p, n) == SubSeq([i \in 1..n |-> p[((i - 1) % KeyPeriod) + 1]], 1, n)

KeyChars == {"0", "1", "7", "a", "b", "f", "A"}

\* Valid public keys: 64 hex digits.
Keys == {Repeat(p, HEX_LEN) : p \in [1..KeyPeriod -> KeyChars]}

BodyChars == {"q", "l", "7", "1", "b"}

\* Strings given to npub_to_hex: of 62, 63 and 64 characters, with the prefix
\* 'npub' or another, over characters inside and outside the character set.
NpubInputs ==
    {pre \o Repeat(p, n) :
        pre \in {NPUB, <<"n", "s", "e", "c">>},
        p \in [1..KeyPeriod -> BodyChars],
        n \in {NPUB_LEN - 5, NPUB_LEN - 4, NPUB_LEN - 3}}

\* npub_to_hex(hex_to_npub(hex_pubkey))
RoundTrip(hex_pubkey) ==
    /\ call' = [op |-> "round_trip", input |-> hex_pubkey,
                npub |-> hex_to_npub(hex_pubkey),
                result |-> IF hex_to_npub(hex_pubkey).ok
                           THEN npub_to_hex(hex_to_npub(hex_pubkey).value)
                           ELSE Failure]
    /\ UNCHANGED <<now, authVars, loginVars, blob, supaVars, shopVars>>

\* npub_to_hex(npub)
NpubToHex(npub) ==
    /\ call' = [op |-> "npub_to_hex", input |-> npub,
                npub |-> [ok |-> TRUE, value |-> npub],
                result |-> npub_to_hex(npub)]
    /\ UNCHANGED <<now, authVars, loginVars, blob, supaVars, shopVars>>

\* The characters a corrupted encoding may carry in place of the right one.
CorruptChars == BodyChars \cup {"n", "x"}

\* An encoded key that npub_to_hex decoded has the character at position pos
\* replaced by another one, c, and is decoded again.
Corrupt(pos, c) ==
    /\ call.op = "npub_to_hex"
    /\ call.result.ok
    /\ call.input[pos] # c
    /\ call' = [op |-> "corrupt", input |-> call.input, pos |-> pos,
                npub |-> [ok |-> TRUE, value |-> [call.input EXCEPT ![pos] = c]],
                before |-> call.result,
                result |-> npub_to_hex([call.input EXCEPT ![pos] = c])]
    /\ UNCHANGED <<now, authVars, loginVars, blob, supaVars, shopVars>>

\* One call of the codec on a drawn input; an encoding that decoded may then
\* be corrupted in one character and decoded again.
NextCodec ==
    \/ /\ call.op = "idle"
       /\ \/ \E k \in Keys : RoundTrip(k)
          \/ \E n \in NpubInputs : NpubToHex(n)
    \/ \E pos \in 1..NPUB_LEN, c \in CorruptChars : Corrupt(pos, c)

-----------------------------------------------------------------------------
(* The manual login of routes.py and the requests of the browsers.         *)

\* The characters of a string put together: f-strings and ''.join.
RECURSIVE Str(_)
Str(chars) ==
    IF Len(chars) = 0 THEN ""
    ELSE IF Len(chars) = 1 THEN chars[1]
    ELSE Str(SubSeq(chars, 1, Len(chars) \div 2))
            \o Str(SubSeq(chars, (Len(chars) \div 2) + 1, Len(chars)))

\* What a browser may type into the npub field: nothing, an npub-shaped
\* string over the character set, one with a character outside it, and a
\* string with another prefix.
ManualInputs ==
    {<<>>,
     NPUB \o Repeat(<<"q", "l", "7">>, NPUB_LEN - 4),
     NPUB \o Repeat(<<"1", "q", "l">>, NPUB_LEN - 4),
     <<"n", "s", "e", "c">> \o Repeat(<<"q", "l", "7">>, NPUB_LEN - 4)}

\* What handle_manual_auth answers to the npub typed in.
ManualAuthReply(npub) ==
    IF Len(npub) = 0
    THEN Reply(FALSE, "Please enter your npub")
    ELSE IF ~ validate_npub(npub)
    THEN Reply(FALSE, "Invalid npub format")
    ELSE IF ~ npub_to_hex(npub).ok \/ Len(npub_to_hex(npub).value) = 0
    THEN Reply(FALSE, "Failed to process npub")
    ELSE Reply(TRUE, "")

\* handle_manual_auth on each input: the answer and the hex key of the user.
ManualTable ==
    {[npub |-> npub, reply |-> ManualAuthReply(npub),
      hex_pubkey |-> IF ManualAuthReply(npub).ok
                     THEN Str(npub_to_hex(npub).value) ELSE ""] :
        npub \in ManualInputs}

\* POST /login with auth_type 'manual': handle_manual_auth. The user row is
\* found or created by the hex key and the session is given that user.
PostLoginManual(b, npub) ==
    LET m == CHOOSE m \in ManualTable : m.npub = npub
    IN  /\ resp' = Response(b, "POST /login manual", m.reply.ok,
                            IF m.reply.ok THEN "" ELSE m.reply.reason, None, FALSE)
        /\ IF m.reply.ok
           THEN /\ users' = users \cup {m.hex_pubkey}
                /\ session' = [session EXCEPT ![b].user_id = m.hex_pubkey]
                /\ accepted' = [accepted EXCEPT ![b] = NoEvent]
           ELSE UNCHANGED <<users, session, accepted>>
        /\ UNCHANGED <<now, authVars, call, blob, supaVars, shopVars>>

\* The requests of the browsers in B, and the passing of time.
Routes(B) ==
    \/ \E d \in {1, CHALLENGE_TTL} : Tick(d)
    \/ \E b \in B : GetLogin(b)
    \/ \E b \in B : ApiGetChallenge(b)
    \/ \E b \in B, e \in LoginEvents : PostLoginExtension(b, e)
    \/ \E b \in B : Logout(b)
    \/ \E b \in B, npub \in ManualInputs : PostLoginManual(b, npub)

\* One browser session and its requests.
NextLogin == Routes({"b1"})

\* Two browser sessions whose requests interleave; each posts well-formed
\* events of its own user for the challenge values drawn so far.
NextSessions ==
    \/ \E b \in Browsers : GetLogin(b)
    \/ \E b \in Browsers : ApiGetChallenge(b)
    \/ \E b \in Browsers, c \in Candidates :
          PostLoginExtension(b, AuthEvent(IF b = "b1" THEN "alice" ELSE "bob", c))
    \/ \E b \in Browsers : Logout(b)

-----------------------------------------------------------------------------
(* The Supabase side: SupabaseClient._make_request and                     *)
(* NostrService.create_event, which looks an id up and then inserts it.    *)
(* Callers are separate invocations of the endpoint; another caller's      *)
(* requests may arrive between the two requests of one create_event.       *)
(* The table nostr_events is keyed by id: the REST endpoint refuses a row  *)
(* whose id it already holds.                                              *)

Callers == 1..NumCallers

EventIds == {"e1", "e2"}

\* What happens to a request and to each repeat of it: it is served, the
\* endpoint answers 500 without serving it, or no answer arrives (connection
\* error, timeout).
Answers == [1..(1 + HTTP_RETRY_MAX) -> {"served", "error500", "raised"}]

\* The REST endpoint serving one request for the row `id`.
Serve(method, id, table) ==
    CASE method = "GET" ->
            [status |-> 200, rows |-> IF id \in table THEN <<id>> ELSE <<>>,
             table |-> table]
      [] method = "POST" /\ id \notin table ->
            [status |-> 201, rows |-> <<id>>, table |-> table \cup {id}]
      [] method = "POST" /\ id \in table ->
            [status |-> 409, rows |-> <<>>, table |-> table]

\* _make_request(method, endpoint, data): one request is sent; a status of 400
\* or more (raise_for_status) and an exception both give {"error": ...}.
\* `sent` counts the requests sent, `table` is the table afterwards.
make_request(method, id, answers, table) ==
    LET served == Serve(method, id, table)
        ok == answers[1] = "served" /\ served.status < 400
    IN  [method |-> method, endpoint |-> id, answers |-> answers, sent |-> 1,
         error |-> ~ ok,
         rows |-> IF ok THEN served.rows ELSE <<>>,
         table |-> IF answers[1] = "served" THEN served.table ELSE table]

\* get_nostr_event_by_id(event_id): the row, or {"error": "Event not found"}
\* when the result is not a non-empty list; TRUE when it is the row.
get_nostr_event_by_id(result) == ~ result.error /\ Len(result.rows) > 0

NoTask == [pc |-> "idle", id |-> "", code |-> "", inserts |-> 0, known |-> FALSE]

Sent(p, r) ==
    [by |-> p, method |-> r.method, endpoint |-> r.endpoint, answers |-> r.answers,
     sent |-> r.sent, error |-> r.error]

\* create_event up to the check of `existing`: EVENT_EXISTS is returned when
\* the lookup gave a row, and the insert is prepared otherwise.
Lookup(p, id, answers) ==
    /\ tasks[p].pc = "idle"
    /\ LET r == make_request("GET", id, answers, nostr_events)
       IN  /\ request' = Sent(p, r)
           /\ nostr_events' = r.table
           /\ tasks' = [tasks EXCEPT ![p] =
                  IF get_nostr_event_by_id(r)
                  THEN [NoTask EXCEPT !.pc = "done", !.id = id, !.code = "EVENT_EXISTS"]
                  ELSE [NoTask EXCEPT !.pc = "insert", !.id = id]]
    /\ UNCHANGED <<now, authVars, loginVars, call, blob, shopVars>>

\* create_event from insert_nostr_event on: DATABASE_ERROR when the result
\* has an "error", success otherwise. `known` records that the id was stored
\* when the insert was issued.
Insert(p, answers) ==
    /\ tasks[p].pc = "insert"
    /\ LET r == make_request("POST", tasks[p].id, answers, nostr_events)
       IN  /\ request' = Sent(p, r)
           /\ nostr_events' = r.table
           /\ tasks' = [tasks EXCEPT ![p] =
                  [pc |-> "done", id |-> tasks[p].id,
                   code |-> IF r.error THEN "DATABASE_ERROR" ELSE "OK",
                   inserts |-> 1,
                   known |-> tasks[p].id \in nostr_events]]
    /\ UNCHANGED <<now, authVars, loginVars, call, blob, shopVars>>

NextSupabase ==
    \/ \E p \in Callers, id \in EventIds, answers \in Answers : Lookup(p, id, answers)
    \/ \E p \in Callers, answers \in Answers : Insert(p, answers)

InitSupabase ==
    /\ nostr_events = {}
    /\ tasks = [p \in Callers |-> NoTask]
    /\ request = [by |-> 0, method |-> "", endpoint |-> "", answers |-> <<>>,
                  sent |-> 0, error |-> FALSE]

-----------------------------------------------------------------------------
(* The purchase route of routes.py. buy_listing loads the listing, checks   *)
(* it, and later commits the purchase together with the new status; the     *)
(* rows are not locked in between, so another request may be served between *)
(* the load and the commit.                                                 *)

Requests == 1..NumRequests

UserIds == {"seller", "ann", "ben"}

\* "l9" is the id of no listing.
ListingIds == {"l1", "l2", "l9"}

NoBuy == [pc |-> "idle", user |-> None, listing |-> "", success |-> FALSE, error |-> ""]

Refused(u, l, error) ==
    [pc |-> "done", user |-> u, listing |-> l, success |-> FALSE, error |-> error]

\* buy_listing up to the creation of the Purchase object: the login check,
\* the load of the listing (get_or_404, whose NotFound is caught as any
\* exception) and the two checks of the loaded row.
BuyCheck(r, u, l) ==
    /\ buys[r].pc = "idle"
    /\ buys' = [buys EXCEPT ![r] =
          CASE u = None -> Refused(u, l, "Please log in to make a purchase")
            [] u # None /\ l \notin DOMAIN listings -> Refused(u, l, "Purchase failed")
            [] u # None /\ l \in DOMAIN listings /\ listings[l].status # "active" ->
                  Refused(u, l, "Listing is no longer available")
            [] u # None /\ l \in DOMAIN listings /\ listings[l].status = "active"
                        /\ listings[l].seller_id = u ->
                  Refused(u, l, "You cannot buy your own listing")
            [] OTHER ->
                  [pc |-> "commit", user |-> u, listing |-> l, success |-> FALSE,
                   error |-> ""]]
    /\ UNCHANGED <<now, authVars, loginVars, call, blob, supaVars, listings, purchases>>

\* buy_listing from listing.status = 'sold' to the response: the commit
\* writes the status and adds the Purchase row.
BuyCommit(r) ==
    /\ buys[r].pc = "commit"
    /\ listings' = [listings EXCEPT ![buys[r].listing].status = "sold"]
    /\ purchases' = purchases \cup
          {[request |-> r, buyer_id |-> buys[r].user, listing_id |-> buys[r].listing]}
    /\ buys' = [buys EXCEPT ![r].pc = "done", ![r].success = TRUE]
    /\ UNCHANGED <<now, authVars, loginVars, call, blob, supaVars>>

NextShop ==
    \/ \E r \in Requests, u \in UserIds \cup {None}, l \in ListingIds : BuyCheck(r, u, l)
    \/ \E r \in Requests : BuyCommit(r)

InitShop ==
    /\ listings = [l \in {"l1", "l2"} |-> [status |-> "active", seller_id |-> "seller"]]
    /\ purchases = {}
    /\ buys = [r \in Requests |-> NoBuy]

InitAuth ==
    /\ now = 0
    /\ active_challenges = EmptyStore
    /\ issued = <<>>
    /\ ret = [op |-> "none", session_id |-> "", challenge |-> "", result |-> FALSE,
              at |-> 0, before |-> EmptyStore]

InitLogin ==
    /\ session = [b \in Browsers |-> [auth_challenge |-> None, user_id |-> None]]
    /\ users = {}
    /\ resp = [browser |-> "", route |-> "", success |-> FALSE, error |-> "",
               challenge |-> None, expired |-> FALSE, replay |-> FALSE]
    /\ accepted = [b \in Browsers |-> NoEvent]

InitPure == call = Idle

InitBlob == blob = BlobIdle

Init == InitAuth /\ InitLogin /\ InitPure /\ InitBlob /\ InitSupabase /\ InitShop

\* One call is made on a drawn input; an event that verified may then be
\* tampered with and verified again.
NextPure ==
    \/ /\ call.op = "idle"
       /\ \E e \in PureEvents \cup {NonDict} :
             \E pk \in {e.pubkey, "bob"} : Verify(e, pk)
    \/ /\ call.op = "idle"
       /\ \E e \in PureEvents, c \in {Challenge(1), Challenge(2)} : Validate(e, c)
    \/ \E f \in {"content", "created_at", "kind", "tags"} : Tamper(f)
    \/ /\ call.op = "idle"
       /\ \E e \in IdEvents, how \in {"resigned", "outer", "inner", "content"} :
             \E o \in Variants(e, how) : EventId(e, o, how)

SpecPure == Init /\ [][NextPure]_vars

SpecManager == Init /\ [][NextManager]_vars

SpecLogin == Init /\ [][NextLogin]_vars

SpecBlob == Init /\ [][NextBlob]_vars

SpecSessions == Init /\ [][NextSessions]_vars

SpecCodec == Init /\ [][NextCodec]_vars

SpecSupabase == Init /\ [][NextSupabase]_vars

SpecShop == Init /\ [][NextShop]_vars

-----------------------------------------------------------------------------
(* Claims about NostrAuthManager, checked under SpecManager.               *)

\* The number of the newest challenge drawn for session s (0: none yet).
NewestFor(s) ==
    LET ns == {n \in DOMAIN issued : issued[n].for = s}
    IN  IF ns = {} THEN 0 ELSE CHOOSE n \in ns : \A m \in ns : m <= n

\* C3: at most one live challenge per session key: a validate_challenge(s, c)
\* that returns True was given the newest value drawn for s, so after a second
\* create_challenge(s) the first value no longer validates, expired or not.
C3_OnlyNewestValidates ==
    (ret.op = "validate" /\ ret.result) =>
        /\ NewestFor(ret.session_id) # 0
        /\ ret.challenge = Challenge(NewestFor(ret.session_id))

\* C3 witness: the first value of a session is presented after a second one was
\* drawn, less than the expiry window after it was issued, and is refused.
C3_Witness ==
    /\ ret.op = "validate"
    /\ ~ ret.result
    /\ \E n \in DOMAIN issued :
          /\ issued[n].for = ret.session_id
          /\ n < NewestFor(ret.session_id)
          /\ ret.challenge = Challenge(n)
          /\ ret.at - issued[n].at < CHALLENGE_TTL

\* What the last validate_challenge call found.
RetHad == ret.session_id \in DOMAIN ret.before
RetAge == ret.at - ret.before[ret.session_id].created_at
RetMatch == ret.before[ret.session_id].challenge = ret.challenge

\* C6 as claimed: validate_challenge on an entry older than 300 seconds fails
\* and leaves no entry for s, for every candidate value, matching or not; an
\* entry aged exactly 300 seconds is still valid; with no entry it fails and
\* the store is unchanged.
C6_ExpiredAlwaysDeleted ==
    ret.op = "validate" =>
        /\ (RetHad /\ RetAge > CHALLENGE_TTL) =>
              (~ ret.result /\ ret.session_id \notin DOMAIN active_challenges)
        /\ (RetHad /\ RetAge = CHALLENGE_TTL /\ RetMatch) => ret.result
        /\ ~ RetHad => (~ ret.result /\ active_challenges = ret.before)

\* C6 amended: on an entry older than 300 seconds validate_challenge fails for
\* every candidate; it deletes the entry when the candidate equals the stored
\* value and leaves the store unchanged when it differs; an entry aged exactly
\* 300 seconds is still valid; with no entry it fails and the store is
\* unchanged.
C6_ExpiredDeletedOnMatch ==
    ret.op = "validate" =>
        /\ (RetHad /\ RetAge > CHALLENGE_TTL /\ RetMatch) =>
              (~ ret.result /\ active_challenges = Del(ret.before, ret.session_id))
        /\ (RetHad /\ RetAge > CHALLENGE_TTL /\ ~ RetMatch) =>
              (~ ret.result /\ active_challenges = ret.before)
        /\ (RetHad /\ RetAge = CHALLENGE_TTL /\ RetMatch) =>
              (ret.result /\ active_challenges = ret.before)
        /\ ~ RetHad => (~ ret.result /\ active_challenges = ret.before)

\* C6 witness: an expired entry was validated with its own value and is gone.
C6_Witness ==
    /\ ret.op = "validate"
    /\ RetHad
    /\ RetAge > CHALLENGE_TTL
    /\ RetMatch
    /\ ret.session_id \notin DOMAIN active_challenges

\* C28: validate_challenge changes the store only by deleting the entry of
\* the validated session, and only when that entry is older than 300 seconds;
\* a successful validation and a validation with a wrong value leave the
\* store as it was; consume_challenge on a session without an entry leaves it
\* as it was; and no call changes the entry of another session.
C28_FrameOfStore ==
    /\ ret.op = "validate" =>
          /\ active_challenges # ret.before =>
                /\ RetHad
                /\ RetAge > CHALLENGE_TTL
                /\ active_challenges = Del(ret.before, ret.session_id)
          /\ ret.result => active_challenges = ret.before
          /\ (RetHad /\ ~ RetMatch) =>
                (~ ret.result /\ active_challenges = ret.before)
    /\ (ret.op = "consume" /\ ret.session_id \notin DOMAIN ret.before) =>
          active_challenges = ret.before
    /\ ret.op # "none" =>
          \A x \in SessionIds \ {ret.session_id} :
              /\ x \in DOMAIN active_challenges <=> x \in DOMAIN ret.before
              /\ x \in DOMAIN ret.before => active_challenges[x] = ret.before[x]

\* C28 witness: a validation succeeded while another session held an entry,
\* and both entries are still stored.
C28_Witness ==
    /\ ret.op = "validate"
    /\ ret.result
    /\ DOMAIN ret.before = SessionIds
    /\ active_challenges = ret.before

-----------------------------------------------------------------------------
(* Claims about the pure functions, checked under SpecPure.                *)

\* A signature value names its format, who made it and over which digest: it
\* is a genuine signature of id under pubkey when all three fit.
Genuine(sig, pubkey, id) ==
    sig.fmt = "hex128" /\ sig.by = pubkey /\ sig.over = id

\* C7 as claimed: verify_nostr_signature returns True only for an event whose
\* sig is a genuine signature of its id under pubkey.
C7_OnlyGenuineSignatures ==
    (call.op = "verify" /\ call.ok) =>
        Genuine(call.event.sig, call.arg, call.event.id)

\* C8: an event that verified, changed in one of content, one entry of tags,
\* created_at or kind with id and sig kept, does not verify, and is refused
\* at the id comparison, before the key and signature are looked at.
C8_TamperedFailsAtId ==
    call.op = "tamper" => (~ call.ok /\ call.reason = "id_mismatch")

\* C8 witness: an event that verified had one entry of its tags replaced.
C8_Witness == call.op = "tamper" /\ call.field = "tags"

\* The inputs that C22 lists: an event that is not a dict or lacks id, pubkey
\* or sig, a pubkey that is not 64 hex digits, a signature that is not 128 hex
\* digits.
Malformed(event, pubkey) ==
    \/ event = NonDict
    \/ {"id", "pubkey", "sig"} \cap event.missing # {}
    \/ pubkey \notin {"alice", "bob"}
    \/ event.sig.fmt # "hex128"

\* C22 as claimed: verify_nostr_signature never raises and returns a boolean,
\* and it returns False for every malformed input.
C22_MalformedRefused ==
    call.op \in {"verify", "tamper"} =>
        /\ call.ok \in BOOLEAN
        /\ call.reason # "raised"
        /\ Malformed(call.event, call.arg) => ~ call.ok

\* The two events have the same values in the five hashed fields.
SameFields(e, o) ==
    /\ e.pubkey = o.pubkey
    /\ e.created_at = o.created_at
    /\ e.kind = o.kind
    /\ e.tags = o.tags
    /\ e.content = o.content

\* C24: events with equal pubkey, created_at, kind, tags (in equal order) and
\* content have the same calculate_event_id, whatever their id and sig; an
\* event whose tag list, or whose elements inside one tag, come in another
\* order has a different one.
C24_IdOfOrderedFields ==
    call.op = "event_id" =>
        /\ SameFields(call.event, call.other) => call.id = call.other_id
        /\ (call.how \in {"outer", "inner"} /\ call.other.tags # call.event.tags)
              => call.id # call.other_id

\* C24 witness: the two elements of a tag were exchanged, and the id differs.
C24_Witness ==
    /\ call.op = "event_id"
    /\ call.how = "inner"
    /\ call.other.tags # call.event.tags
    /\ call.id # call.other_id

KindReason == "Invalid event kind for authentication"
TimeReason == "Event timestamp is too old or in the future"
TagReason == "Challenge not found in event tags"
SigReason == "Invalid signature"

\* C9: an event with all required fields whose kind is not 22242 is refused
\* with the wrong-kind reason, whatever its timestamp, tags and signature.
C9_WrongKindRefused ==
    (call.op = "validate" /\ call.event.missing = {}
        /\ call.event.kind # AUTH_KIND) =>
        (~ call.ok /\ call.reason = KindReason)

\* C9 witness: a correctly signed, fresh event carrying the expected challenge
\* but of another kind was validated.
C9_Witness ==
    /\ call.op = "validate"
    /\ call.event.missing = {}
    /\ call.event.kind # AUTH_KIND
    /\ call.event.created_at = now
    /\ ChallengeFound(call.event.tags, call.arg)
    /\ call.event.id = calculate_event_id(call.event)
    /\ Genuine(call.event.sig, call.event.pubkey, call.event.id)
    /\ PubkeyBytes(call.event.pubkey) = 32

\* The four checks of C10 on the event of the last call, a field that the
\* event lacks failing its check.
KindPasses == "kind" \notin call.event.missing /\ call.event.kind = AUTH_KIND
TimePasses ==
    /\ "created_at" \notin call.event.missing
    /\ now - call.event.created_at <= MAX_AGE
    /\ call.event.created_at - now <= MAX_AGE
TagPasses ==
    /\ "tags" \notin call.event.missing
    /\ \E i \in DOMAIN call.event.tags :
          /\ Len(call.event.tags[i]) >= 2
          /\ call.event.tags[i][1] = "challenge"
          /\ call.event.tags[i][2] = call.arg
SigPasses ==
    /\ "pubkey" \notin call.event.missing
    /\ verify_nostr_signature(call.event, call.event.pubkey)

FirstFailing ==
    IF ~ KindPasses THEN KindReason
    ELSE IF ~ TimePasses THEN TimeReason
    ELSE IF ~ TagPasses THEN TagReason
    ELSE SigReason

FourChecks ==
    /\ call.ok <=> (KindPasses /\ TimePasses /\ TagPasses /\ SigPasses)
    /\ ~ call.ok => call.reason = FirstFailing

\* C10 as claimed: validate_auth_event succeeds exactly when the kind, the
\* timestamp, the challenge tag and the signature check pass, and reports the
\* first failing one of them otherwise.
C10_FourChecksDecide == call.op = "validate" => FourChecks

\* C10 amended: for an event that contains all seven required fields,
\* validate_auth_event succeeds exactly when the four checks pass and reports
\* the first failing one otherwise.
C10_FourChecksDecideComplete ==
    (call.op = "validate" /\ call.event.missing = {}) => FourChecks

\* C10 witness: a complete event passed all four checks and was accepted.
C10_Witness ==
    /\ call.op = "validate"
    /\ call.event.missing = {}
    /\ call.ok
    /\ KindPasses /\ TimePasses /\ TagPasses /\ SigPasses

-----------------------------------------------------------------------------
(* Claims about the login routes, checked under SpecLogin.                 *)

\* The number of the newest challenge drawn for browser b (0: none yet).
NewestBy(b) ==
    LET ns == {n \in DOMAIN issued : issued[n].by = b}
    IN  IF ns = {} THEN 0 ELSE CHOOSE n \in ns : \A m \in ns : m <= n

LoginSucceeded == resp.route = "POST /login" /\ resp.success

\* C2 as claimed: the event of a successful extension login, posted again by
\* the same browser without a new challenge being requested, is refused.
C2_NoReplay == ~ (LoginSucceeded /\ resp.replay)

\* C4 as claimed: an extension login succeeds only with the newest challenge
\* value issued to the browser, by GET /login or by GET /api/challenge.
C4_OnlyNewestLogsIn ==
    LoginSucceeded => resp.challenge = Challenge(NewestBy(resp.browser))

\* C5 as claimed: an extension login never succeeds with a challenge value
\* that was issued more than 300 seconds before.
C5_ExpiredNeverLogsIn == LoginSucceeded => ~ resp.expired

\* C27 as claimed: whenever a request gives a session a user, the request
\* carried an authentication event of that user's key which passed
\* validate_auth_event against the challenge of the session.
C27_UserOnlyAfterValidatedEvent ==
    [][\A b \in Browsers :
          (session'[b].user_id # session[b].user_id /\ session'[b].user_id # None)
              => /\ accepted'[b] # NoEvent
                 /\ accepted'[b].pubkey = session'[b].user_id
                 /\ session[b].auth_challenge # None
                 /\ validate_auth_event(accepted'[b], session[b].auth_challenge, now).ok]_vars

-----------------------------------------------------------------------------
(* Claims about the blob client, checked under SpecBlob.                   *)

\* C1: get_blob returns None or bytes whose SHA-256 is the requested hash,
\* whatever the servers answer.
C1_OnlyMatchingBytes ==
    (blob.op = "get_blob" /\ blob.found) => Sha256(blob.content) = blob.hash

\* C1 witness: the first server served other bytes with status 200, and
\* get_blob still returned bytes.
C1_Witness ==
    /\ blob.op = "get_blob"
    /\ blob.found
    /\ ~ blob.answers[1].raises
    /\ blob.answers[1].status = 200
    /\ Sha256(blob.answers[1].body) # blob.hash

\* A server answered its request with HTTP status 200.
Ok200(a) == ~ a.raises /\ a.status = 200

\* The first server of a non-empty set, in list order.
FirstOf(S) == CHOOSE i \in S : \A j \in S : i <= j

\* The first n servers, in list order.
UpTo(n) == [k \in 1..n |-> k]

\* C12 as claimed: upload_blob tries the servers in list order and returns at
\* the first server that answers HTTP 200: the descriptor names that server
\* and carries the locally computed SHA-256, and no later server is sent an
\* upload request.
C12_ReturnsAtFirst200 ==
    (blob.op = "upload_blob" /\ \E i \in Servers : Ok200(blob.answers[i])) =>
        /\ blob.found
        /\ blob.descriptor.server = FirstOf({i \in Servers : Ok200(blob.answers[i])})
        /\ blob.descriptor.sha256 = calculate_file_hash(blob.data)
        /\ blob.contacted = UpTo(FirstOf({i \in Servers : Ok200(blob.answers[i])}))

\* C13 as claimed: upload_blob returns None exactly when every server failed,
\* that is answered with a status other than 200 or raised.
C13_NoneIffAllFailed ==
    blob.op = "upload_blob" =>
        (~ blob.found <=> \A i \in Servers : ~ Ok200(blob.answers[i]))

\* A server answered 200 with a body that parses as a JSON object.
Usable(a) == Ok200(a) /\ a.body.json = "object"

\* C12 amended: upload_blob returns at the first server in list order that
\* answers 200 with a JSON object: the descriptor names that server and
\* carries the locally computed SHA-256, and no later server is sent an upload
\* request; a 200 answer with any other body is passed over.
C12_ReturnsAtFirstUsable ==
    (blob.op = "upload_blob" /\ \E i \in Servers : Usable(blob.answers[i])) =>
        /\ blob.found
        /\ blob.descriptor.server = FirstOf({i \in Servers : Usable(blob.answers[i])})
        /\ blob.descriptor.sha256 = calculate_file_hash(blob.data)
        /\ blob.contacted = UpTo(FirstOf({i \in Servers : Usable(blob.answers[i])}))

\* C12 witness: the first server raised; the second answered 200 with a JSON
\* object reporting another hash and was returned, the third not being asked.
C12_Witness ==
    /\ blob.op = "upload_blob"
    /\ blob.answers[1].raises
    /\ Usable(blob.answers[2])
    /\ blob.answers[2].body.sha256 # calculate_file_hash(blob.data)
    /\ blob.found
    /\ blob.descriptor.server = 2
    /\ blob.contacted = <<1, 2>>

\* C13 amended: upload_blob returns None exactly when no server answered 200
\* with a JSON object; servers that fail before one that does never make the
\* upload fail.
C13_NoneIffNoneUsable ==
    blob.op = "upload_blob" =>
        (~ blob.found <=> \A i \in Servers : ~ Usable(blob.answers[i]))

\* C13 witness: the first server answered 500, the second raised, the third
\* accepted the upload, and a descriptor was returned.
C13_Witness ==
    /\ blob.op = "upload_blob"
    /\ ~ blob.answers[1].raises /\ blob.answers[1].status = 500
    /\ blob.answers[2].raises
    /\ Usable(blob.answers[3])
    /\ blob.found

\* The server served bytes whose SHA-256 is the requested hash.
Serves(a, sha256_hash) == Ok200(a) /\ Sha256(a.body) = sha256_hash

\* C14: get_blob passes over every server that raises, answers with another
\* status or serves bytes of another hash, in list order; it returns the bytes
\* of the first server that serves matching bytes, and None only when no
\* server does.
C14_FallsBackToMatching ==
    blob.op = "get_blob" =>
        LET S == {i \in Servers : Serves(blob.answers[i], blob.hash)}
        IN  /\ blob.found <=> S # {}
            /\ S # {} => /\ blob.content = blob.answers[FirstOf(S)].body
                         /\ blob.contacted = UpTo(FirstOf(S))
            /\ S = {} => blob.contacted = UpTo(NumServers)

\* C14 witness: the first server served other bytes, the second raised, and
\* get_blob returned the bytes of the third.
C14_Witness ==
    /\ blob.op = "get_blob"
    /\ Ok200(blob.answers[1])
    /\ ~ Serves(blob.answers[1], blob.hash)
    /\ blob.answers[2].raises
    /\ blob.found
    /\ blob.contacted = UpTo(3)

\* C15: delete_blob sends its request to every server and returns True
\* exactly when at least one of them answered 200, 204 or 404.
C15_DeleteAnySuccess ==
    blob.op = "delete_blob" =>
        /\ blob.contacted = UpTo(NumServers)
        /\ blob.result <=>
              \E i \in Servers : /\ ~ blob.answers[i].raises
                                 /\ blob.answers[i].status \in {200, 204, 404}

\* C15 witness: the first server answered 200 and the later ones were still
\* asked; one of them raised, another answered 404.
C15_Witness ==
    /\ blob.op = "delete_blob"
    /\ blob.result
    /\ Ok200(blob.answers[1])
    /\ blob.answers[2].raises
    /\ ~ blob.answers[3].raises /\ blob.answers[3].status = 404
    /\ Len(blob.contacted) = NumServers

\* C16 as claimed: no two entries returned by list_user_blobs share a sha256,
\* and every sha256 in a list that a server served with status 200 is in the
\* result, whatever the other servers did.
C16_UnionBySha256 ==
    blob.op = "list_user_blobs" =>
        /\ \A i, j \in DOMAIN blob.list :
              i # j => blob.list[i].sha256 # blob.list[j].sha256
        /\ \A s \in Servers :
              (Ok200(blob.answers[s]) /\ blob.answers[s].body.json = "array") =>
                 \A k \in DOMAIN blob.answers[s].body.entries :
                    LET e == blob.answers[s].body.entries[k]
                    IN  (e.dict /\ e.sha256 # None) =>
                           \E m \in DOMAIN blob.list : blob.list[m].sha256 = e.sha256

\* C17: has_blob returns (True, s) with s the first server in list order that
\* answers 200, servers that raise or answer otherwise being passed over, and
\* (False, None) exactly when no server answers 200.
C17_FirstServerWith200 ==
    blob.op = "has_blob" =>
        LET S == {i \in Servers : Ok200(blob.answers[i])}
        IN  /\ blob.found <=> S # {}
            /\ S # {} => /\ blob.server = FirstOf(S)
                         /\ blob.contacted = UpTo(FirstOf(S))
            /\ S = {} => /\ blob.server = 0
                         /\ blob.contacted = UpTo(NumServers)

\* C17 witness: the first server raised, the second answered 500, and the
\* third answered 200 and was returned.
C17_Witness ==
    /\ blob.op = "has_blob"
    /\ blob.answers[1].raises
    /\ ~ blob.answers[2].raises /\ blob.answers[2].status = 500
    /\ blob.found
    /\ blob.server = 3

\* C23: no blob operation lets an exception reach its caller; when every
\* server fails (raises, answers with a failure status or with a malformed
\* body) upload_blob and get_blob return None, has_blob returns (False, None)
\* and delete_blob returns False, and list_user_blobs returns a list, the
\* empty one when an entry of a served list made it raise.
C23_ExplicitFailure ==
    /\ (blob.op = "upload_blob" /\ \A i \in Servers : ~ Usable(blob.answers[i]))
          => (~ blob.found /\ blob.descriptor = NoDescriptor)
    /\ (blob.op = "get_blob"
           /\ \A i \in Servers : ~ Serves(blob.answers[i], blob.hash))
          => ~ blob.found
    /\ (blob.op = "has_blob" /\ \A i \in Servers : ~ Ok200(blob.answers[i]))
          => (~ blob.found /\ blob.server = 0)
    /\ (blob.op = "delete_blob"
           /\ \A i \in Servers : \/ blob.answers[i].raises
                                 \/ blob.answers[i].status \notin {200, 204, 404})
          => ~ blob.result
    /\ blob.op = "list_user_blobs"
          => (~ blob.escaped /\ (blob.raised => blob.list = <<>>))

\* C23 witness: a served list held an entry that is not an object, the
\* deduplication raised, and list_user_blobs returned the empty list.
C23_Witness ==
    /\ blob.op = "list_user_blobs"
    /\ blob.raised
    /\ ~ blob.escaped
    /\ blob.list = <<>>
    /\ \E i \in Servers : blob.answers[i].raises

\* C25: within one blob operation the requests go to the servers in list
\* order, one request for each server reached: the servers contacted are
\* the first k of the list for some k, so no server is sent a second request
\* and a server that failed is followed by the next one.
C25_OneRequestEachInOrder ==
    blob.op # "idle" =>
        /\ Len(blob.contacted) <= NumServers
        /\ \A k \in DOMAIN blob.contacted : blob.contacted[k] = k

\* C25 witness: the first two servers failed an existence check and the third
\* was asked next, each of them once.
C25_Witness ==
    /\ blob.op = "has_blob"
    /\ blob.answers[1].raises
    /\ blob.answers[2].raises
    /\ blob.contacted = <<1, 2, 3>>

-----------------------------------------------------------------------------
(* Claims about interleaved browser sessions, checked under SpecSessions.  *)

\* The challenge that auth_manager holds for the session of browser b.
Stored(b) ==
    IF SessionKey(b) \in DOMAIN active_challenges
    THEN [present |-> TRUE,
          challenge |-> active_challenges[SessionKey(b)].challenge,
          created_at |-> active_challenges[SessionKey(b)].created_at]
    ELSE [present |-> FALSE, challenge |-> None, created_at |-> 0]

\* auth_manager holds the challenge that browser b drew last.
HoldsOwn(b) ==
    /\ Stored(b).present
    /\ NewestBy(b) # 0
    /\ Stored(b).challenge = Challenge(NewestBy(b))

\* C18 as claimed: while the challenge that a browser session drew is stored
\* for it, a request of another session (GET /login, GET /api/challenge,
\* POST /login) leaves it as it was.
C18_SessionsIsolated ==
    [][\A b \in Browsers :
          (HoldsOwn(b) /\ resp'.browser # b) => Stored(b)' = Stored(b)]_vars

-----------------------------------------------------------------------------
(* Claims about the key codec, checked under SpecCodec.                    *)

\* C19 as claimed: for every valid public key k of 64 hex digits,
\* npub_to_hex(hex_to_npub(k)) is k.
C19_RoundTrip ==
    call.op = "round_trip" =>
        (call.result.ok /\ call.result.value = call.input)

\* C20 as claimed: npub_to_hex returns None or a string of exactly 64 hex
\* digits (32 bytes), whatever string it is given.
C20_ThirtyTwoBytes ==
    (call.op \in {"npub_to_hex", "round_trip"} /\ call.result.ok) =>
        Len(call.result.value) = HEX_LEN

\* C21 as claimed: an encoded key that decodes, with any one character
\* replaced by a different one, does not decode.
C21_CorruptionDetected == call.op = "corrupt" => ~ call.result.ok


-----------------------------------------------------------------------------
(* Claims about the Supabase side, checked under SpecSupabase.             *)

\* C26 as claimed: a request that got no answer is sent again to the same
\* endpoint, at most HTTP_RETRY_MAX more times, before _make_request reports
\* the error to its caller.
C26_RetriesBeforeError ==
    (request.by # 0 /\ request.answers[1] = "raised") =>
        /\ request.sent > 1
        /\ request.sent <= 1 + HTTP_RETRY_MAX

\* C30 as claimed: create_event issues no insert for an id that is stored at
\* that moment, and of the calls made with one id at most one issues the
\* insert, however the calls interleave.
C30_AtMostOneInsert ==
    /\ \A p \in Callers : tasks[p].inserts = 1 => ~ tasks[p].known
    /\ \A p, q \in Callers :
          (p # q /\ tasks[p].inserts = 1 /\ tasks[q].inserts = 1)
              => tasks[p].id # tasks[q].id

-----------------------------------------------------------------------------
(* Claims about the purchase route, checked under SpecShop.                *)

\* C29 as claimed: over every interleaving of purchase requests, no listing
\* has more than one Purchase row.
C29_SoldAtMostOnce ==
    \A l \in DOMAIN listings :
        Cardinality({p \in purchases : p.listing_id = l}) <= 1

=============================================================================
